---- MODULE Spec2Model ----
(***************************************************************************)
(* A model of the tiled-json loader: global/local tile id resolution       *)
(* (src/lib.rs, src/tileset.rs), tileset loading (src/tileset.rs), layer   *)
(* decoding (src/layer.rs) and level assembly (src/level.rs).              *)
(*                                                                         *)
(* u32 values are modelled with a scaled-down width of U32Bits bits; all   *)
(* wrapping arithmetic is taken modulo 2^U32Bits.                          *)
(***************************************************************************)
EXTENDS Integers, Sequences, FiniteSets, TLC

VARIABLES pc, arg, ret, level, idx, tilesets, reads

vars == <<pc, arg, ret, level, idx, tilesets, reads>>

(***************************************************************************)
(* Bounds                                                                  *)
(***************************************************************************)
\* width in bits of the model's u32
U32Bits == 3
\* longest tileset list handed to find_local
MaxSets == 2

U32Mod == 2^U32Bits
U32Max == U32Mod - 1
U32 == 0..U32Max

NoRet == [kind |-> "none"]

(***************************************************************************)
(* u32 arithmetic                                                          *)
(***************************************************************************)
\* `a - b` on u32: the value a release build produces
U32Sub(a, b) == (a - b) % U32Mod
\* `a - b` on u32 leaves the range of u32 (a debug build panics here)
SubUnderflows(a, b) == a < b

(***************************************************************************)
(* Tileset::contains_tile and GlobalTile::find_local                       *)
(***************************************************************************)
\* a mutant of contains_tile: the range test written with a wrapping sum
contains_tile_wrapping_sum(set, id) ==
    [value     |-> set.firstgid <= id /\ id < (set.firstgid + set.tilecount) % U32Mod,
     underflow |-> FALSE]

\* a mutant of contains_tile: off by one at the upper end
contains_tile_inclusive(set, id) ==
    IF id < set.firstgid
    THEN [value |-> FALSE, underflow |-> FALSE]
    ELSE [value     |-> U32Sub(id, set.firstgid) <= set.tilecount,
          underflow |-> SubUnderflows(id, set.firstgid)]

\* value: the boolean returned; underflow: whether the subtraction underflowed
contains_tile(set, id) ==
    IF id < set.firstgid
    THEN [value |-> FALSE, underflow |-> FALSE]
    ELSE [value     |-> U32Sub(id, set.firstgid) < set.tilecount,
          underflow |-> SubUnderflows(id, set.firstgid)]

None(uf) == [found |-> FALSE, index |-> 0, local |-> 0, underflow |-> uf]
Some(i, l, uf) == [found |-> TRUE, index |-> i, local |-> l, underflow |-> uf]

\* the loop of find_local from (1-based) position i on; indices returned are
\* those of enumerate(), 0-based
RECURSIVE find_local_from(_, _, _, _)
find_local_from(g, sets, i, uf) ==
    IF i > Len(sets) THEN None(uf)
    ELSE LET c == contains_tile(sets[i], g) IN
         IF c.value
         THEN Some(i - 1, U32Sub(g, sets[i].firstgid),
                   uf \/ c.underflow \/ SubUnderflows(g, sets[i].firstgid))
         ELSE find_local_from(g, sets, i + 1, uf \/ c.underflow)

\* a mutant of find_local: the scan runs from the back of the list
RECURSIVE find_local_last_from(_, _, _)
find_local_last_from(g, sets, i) ==
    IF i < 1 THEN None(FALSE)
    ELSE IF contains_tile(sets[i], g).value
         THEN Some(i - 1, U32Sub(g, sets[i].firstgid), FALSE)
         ELSE find_local_last_from(g, sets, i - 1)

find_local_last_match(g, sets) == find_local_last_from(g, sets, Len(sets))

find_local(g, sets) == find_local_from(g, sets, 1, FALSE)

(***************************************************************************)
(* Resolution: inputs and actions                                          *)
(***************************************************************************)
\* the firstgid values and tile counts of the lists: both ends of u32
EdgeGids == {0, 1, 2, U32Max - 2, U32Max - 1, U32Max}
EdgeCounts == {0, 1, 2, U32Max}
EdgeSets == [firstgid : EdgeGids, tilecount : EdgeCounts]
AllSets == [firstgid : U32, tilecount : U32]

SeqsUpTo(S, n) == UNION {[1..k -> S] : k \in 0..n}

ResolveArgs ==
    [op : {"find_local"}, g : EdgeGids, sets : SeqsUpTo(EdgeSets, MaxSets)]
    \cup [op : {"contains_tile"}, id : U32, set : AllSets]

InitResolve ==
    /\ pc = "ready"
    /\ arg \in ResolveArgs
    /\ ret = NoRet
    /\ level = NoRet
    /\ idx = 0
    /\ tilesets = <<>>
    /\ reads = <<>>

FindLocal ==
    /\ pc = "ready"
    /\ arg.op = "find_local"
    /\ pc' = "returned"
    /\ ret' = find_local(arg.g, arg.sets)
    /\ UNCHANGED <<arg, level, idx, tilesets, reads>>

ContainsTile ==
    /\ pc = "ready"
    /\ arg.op = "contains_tile"
    /\ pc' = "returned"
    /\ ret' = contains_tile(arg.set, arg.id)
    /\ UNCHANGED <<arg, level, idx, tilesets, reads>>

NextResolve == FindLocal \/ ContainsTile

SpecResolve == InitResolve /\ [][NextResolve]_vars

\* the range [firstgid, firstgid + tilecount) over unbounded integers
InRange(set, g) == set.firstgid <= g /\ g < set.firstgid + set.tilecount

Overlap(a, b) == \E x \in 0..(2 * U32Mod) : InRange(a, x) /\ InRange(b, x)

NonOverlappingAscending(sets) ==
    \A i, j \in 1..Len(sets) :
        i < j => /\ ~Overlap(sets[i], sets[j])
                 /\ sets[i].firstgid <= sets[j].firstgid

ReturnedFrom(o) == pc = "returned" /\ arg.op = o

\* C1: on a list of pairwise non-overlapping ranges in ascending firstgid
\* order, find_local returns Some((i, g - firstgid[i])) when g lies in the
\* range of tileset i, and None when g lies in no range.
C1_ResolveCorrect ==
    (ReturnedFrom("find_local") /\ NonOverlappingAscending(arg.sets)) =>
        /\ \A i \in 1..Len(arg.sets) :
              InRange(arg.sets[i], arg.g) =>
                 /\ ret.found
                 /\ ret.index = i - 1
                 /\ ret.local = arg.g - arg.sets[i].firstgid
        /\ (\A i \in 1..Len(arg.sets) : ~InRange(arg.sets[i], arg.g)) => ~ret.found

C1_Witness ==
    /\ ReturnedFrom("find_local")
    /\ NonOverlappingAscending(arg.sets)
    /\ Len(arg.sets) = 2
    /\ arg.sets[1].tilecount > 0
    /\ InRange(arg.sets[2], arg.g)
    /\ ret.found /\ ret.index = 1 /\ ret.local = 1

C1_WitnessNone ==
    /\ ReturnedFrom("find_local")
    /\ NonOverlappingAscending(arg.sets)
    /\ Len(arg.sets) = 2
    /\ arg.g = 0
    /\ \A i \in 1..2 : arg.sets[i].firstgid >= 1 /\ arg.sets[i].tilecount > 0
    /\ ~ret.found

\* C9: find_local is first-match on any list: a Some((i, l)) names a valid
\* index i whose tileset contains g, no earlier tileset contains g,
\* l < tilecount[i] and firstgid[i] + l = g; None is returned only when no
\* tileset contains g.
C9_FirstMatch ==
    ReturnedFrom("find_local") =>
        IF ret.found
        THEN /\ ret.index \in 0..(Len(arg.sets) - 1)
             /\ InRange(arg.sets[ret.index + 1], arg.g)
             /\ \A j \in 1..ret.index : ~InRange(arg.sets[j], arg.g)
             /\ ret.local < arg.sets[ret.index + 1].tilecount
             /\ arg.sets[ret.index + 1].firstgid + ret.local = arg.g
        ELSE \A j \in 1..Len(arg.sets) : ~InRange(arg.sets[j], arg.g)

C9_Witness ==
    /\ ReturnedFrom("find_local")
    /\ Len(arg.sets) = 2
    /\ InRange(arg.sets[1], arg.g) /\ InRange(arg.sets[2], arg.g)
    /\ arg.sets[1].firstgid > arg.sets[2].firstgid
    /\ ret.found /\ ret.index = 0

\* C10: contains_tile(id) is true exactly when firstgid <= id < firstgid +
\* tilecount over unbounded integers, for every u32 id, firstgid and
\* tilecount, and no subtraction in contains_tile or find_local underflows.
C10_ContainsExact ==
    /\ ReturnedFrom("contains_tile") =>
          /\ ret.value = InRange(arg.set, arg.id)
          /\ ~ret.underflow
    /\ ReturnedFrom("find_local") => ~ret.underflow

C10_Witness ==
    /\ ReturnedFrom("contains_tile")
    /\ arg.set.firstgid + arg.set.tilecount > U32Mod
    /\ arg.id = U32Max
    /\ arg.id > arg.set.firstgid
    /\ ret.value

(***************************************************************************)
(* Layer decoding (impl Deserialize for Layer)                             *)
(***************************************************************************)
\* A layer value of the value tree.  shape: the JSON shape of the value;
\* type: the `type` member (t: absent, or the JSON shape of its value; s: its
\* text when it is a string); common, data, objects: whether the members the
\* derived decoders of TileLayer and ObjectLayer need are present and well
\* typed (members a struct does not name are ignored by the derived decoder).
TypeStrings == {"tilelayer", "objectgroup", "imagelayer", "TileLayer", ""}
TypeFields ==
    [t : {"absent", "number", "null"}, s : {""}] \cup [t : {"string"}, s : TypeStrings]
NoType == [t |-> "absent", s |-> ""]
LayerValues ==
    [shape : {"object"}, type : TypeFields, common : BOOLEAN,
     data : BOOLEAN, objects : BOOLEAN]
    \cup [shape : {"array", "string", "null"}, type : {NoType}, common : {FALSE},
          data : {FALSE}, objects : {FALSE}]

Err(msg) == [kind |-> "Err", value |-> msg]
Ok(kind, v) == [kind |-> kind, value |-> v]

\* from_value::<TileLayer>(data)
TileLayer_from_value(v) == v.common /\ v.data
\* from_value::<ObjectLayer>(data)
ObjectLayer_from_value(v) == v.common /\ v.objects

\* a mutant of Layer_deserialize: the variant is picked by the members present
Layer_deserialize_by_shape(v) ==
    IF v.shape # "object" THEN Err("Layer was not a table")
    ELSE IF v.type.t # "string" THEN Err("Layer does not have type field")
    ELSE IF TileLayer_from_value(v) THEN Ok("Tiles", v)
    ELSE IF ObjectLayer_from_value(v) THEN Ok("Objects", v)
    ELSE Err("Unknown layer type")

Layer_deserialize(v) ==
    IF v.shape # "object" THEN Err("Layer was not a table")
    ELSE IF v.type.t # "string" THEN Err("Layer does not have type field")
    ELSE IF v.type.s = "tilelayer"
         THEN IF TileLayer_from_value(v) THEN Ok("Tiles", v) ELSE Err("tilelayer failed ")
    ELSE IF v.type.s = "objectgroup"
         THEN IF ObjectLayer_from_value(v) THEN Ok("Objects", v)
              ELSE Err("objectgroup failed ")
    ELSE Err("Unknown layer type")

(***************************************************************************)
(* Sparse maps (impl Deserialize for TileProperties / TileTerrain)         *)
(***************************************************************************)
\* longest key of a source mapping
MaxKeyLen == 2

KeyChars == {"0", "1", "+", "a"}
Keys == SeqsUpTo(KeyChars, MaxKeyLen)

DecDigits == <<"0", "1", "2", "3", "4", "5", "6", "7", "8", "9">>
\* char::to_digit(10); -1 for None
DigitVal(c) ==
    IF \E d \in 1..10 : DecDigits[d] = c
    THEN (CHOOSE d \in 1..10 : DecDigits[d] = c) - 1
    ELSE -1

\* the digit loop of u32::from_str with its checked multiply and add; -1 for Err
RECURSIVE parse_digits(_, _, _)
parse_digits(s, i, acc) ==
    IF i > Len(s) THEN acc
    ELSE LET d == DigitVal(s[i]) IN
         IF d < 0 THEN -1
         ELSE IF acc * 10 + d > U32Max THEN -1
         ELSE parse_digits(s, i + 1, acc * 10 + d)

\* str::parse::<u32>(&k): an optional leading `+`, then one or more decimal
\* digits whose value fits u32; -1 for Err
str_parse_u32(k) ==
    IF Len(k) = 0 THEN -1
    ELSE IF k[1] = "+"
         THEN IF Len(k) = 1 THEN -1 ELSE parse_digits(k, 2, 0)
         ELSE parse_digits(k, 1, 0)

\* A source mapping of up to two keys: its keys, and whether every value has
\* the declared shape (a string map for tileproperties, {terrain: [u32; 4]}
\* for tiles).  Distinct keys carry distinguishable values: the value under
\* key k is PropsOf(k), respectively DataOf(k).
SourceMaps ==
    [keys : {{}} \cup {{k1, k2} : k1, k2 \in Keys}, values_ok : BOOLEAN]
PropsOf(k) == [bag |-> k]
DataOf(k) == [terrain |-> k]

LocalTiles(src) == {str_parse_u32(k) : k \in src.keys}

\* The iteration order of the HashMap is unspecified, and a later insert under
\* the same LocalTile replaces the earlier one: for each LocalTile any of the
\* keys that parse to it may be the one inserted last.
LastInserted(src) ==
    {f \in [LocalTiles(src) -> src.keys] : \A n \in LocalTiles(src) : str_parse_u32(f[n]) = n}

\* a mutant of TileProperties_deserialize: a key that does not parse is skipped
TileProperties_deserialize_skipping(src, last) ==
    IF ~src.values_ok THEN Err("invalid type")
    ELSE Ok("Map", [n \in LocalTiles(src) \ {-1} |-> PropsOf(last[n])])

\* last: for each LocalTile, the key whose insert came last
TileProperties_deserialize(src, last) ==
    IF ~src.values_ok THEN Err("invalid type")
    ELSE IF \E k \in src.keys : str_parse_u32(k) = -1
    THEN Err("tileproperties contained a non-integer key")
    ELSE Ok("Map", [n \in LocalTiles(src) |-> PropsOf(last[n])])

TileTerrain_deserialize(src, last) ==
    IF ~src.values_ok THEN Err("invalid type")
    ELSE IF \E k \in src.keys : str_parse_u32(k) = -1
    THEN Err("tileproperties contained a non-integer key")
    ELSE Ok("Map", [n \in LocalTiles(src) |-> DataOf(last[n]).terrain])

(***************************************************************************)
(* Decoding: inputs and actions                                            *)
(***************************************************************************)
DecodeArgs ==
    [op : {"Layer"}, v : LayerValues]
    \cup [op : {"TileProperties", "TileTerrain"}, src : SourceMaps]

InitDecode ==
    /\ pc = "ready"
    /\ arg \in DecodeArgs
    /\ ret = NoRet
    /\ level = NoRet
    /\ idx = 0
    /\ tilesets = <<>>
    /\ reads = <<>>

DeserializeLayer ==
    /\ pc = "ready"
    /\ arg.op = "Layer"
    /\ pc' = "returned"
    /\ ret' = Layer_deserialize(arg.v)
    /\ UNCHANGED <<arg, level, idx, tilesets, reads>>

DeserializeTileProperties ==
    /\ pc = "ready"
    /\ arg.op = "TileProperties"
    /\ pc' = "returned"
    /\ \E last \in LastInserted(arg.src) :
          ret' = TileProperties_deserialize(arg.src, last)
    /\ UNCHANGED <<arg, level, idx, tilesets, reads>>

DeserializeTileTerrain ==
    /\ pc = "ready"
    /\ arg.op = "TileTerrain"
    /\ pc' = "returned"
    /\ \E last \in LastInserted(arg.src) :
          ret' = TileTerrain_deserialize(arg.src, last)
    /\ UNCHANGED <<arg, level, idx, tilesets, reads>>

NextDecode == DeserializeLayer \/ DeserializeTileProperties \/ DeserializeTileTerrain

SpecDecode == InitDecode /\ [][NextDecode]_vars

\* C4: the variant is decided by the `type` member alone: "tilelayer" never
\* gives anything but Tiles, "objectgroup" never anything but Objects, and a
\* value that is no object, or has no string `type`, or any other `type`, is
\* always a decode failure.
C4_LayerDispatch ==
    ReturnedFrom("Layer") =>
        LET v == arg.v
            isType(s) == v.shape = "object" /\ v.type.t = "string" /\ v.type.s = s
        IN  /\ isType("tilelayer") => ret.kind \in {"Tiles", "Err"}
            /\ isType("objectgroup") => ret.kind \in {"Objects", "Err"}
            /\ (~isType("tilelayer") /\ ~isType("objectgroup")) => ret.kind = "Err"
            /\ ret.kind \in {"Tiles", "Objects", "Err"}

C4_Witness ==
    /\ ReturnedFrom("Layer")
    /\ arg.v.type = [t |-> "string", s |-> "objectgroup"]
    /\ arg.v.data /\ arg.v.objects /\ arg.v.common
    /\ ret.kind = "Objects"

SparseReturned == ReturnedFrom("TileProperties") \/ ReturnedFrom("TileTerrain")

AllKeysParse(src) == \A k \in src.keys : str_parse_u32(k) # -1

\* the value a decoded map holds for the source key k
Decoded(k) == IF arg.op = "TileTerrain" THEN DataOf(k).terrain ELSE PropsOf(k)

\* C5 as stated: a key that is no unsigned integer fails the whole decode;
\* otherwise the decode succeeds with exactly one entry per source key, each
\* carrying that key's value.
C5_OneEntryPerKey ==
    (SparseReturned /\ arg.src.values_ok) =>
        IF AllKeysParse(arg.src)
        THEN /\ ret.kind = "Map"
             /\ Cardinality(DOMAIN ret.value) = Cardinality(arg.src.keys)
             /\ \A k \in arg.src.keys :
                   /\ str_parse_u32(k) \in DOMAIN ret.value
                   /\ ret.value[str_parse_u32(k)] = Decoded(k)
        ELSE ret.kind = "Err"

\* C5, amended: a key that does not parse as a u32 fails the whole decode;
\* otherwise the decode succeeds, the LocalTiles of the map are exactly the
\* integers the source keys denote, and each entry carries the value of a
\* source key denoting it; there are as many entries as source keys when the
\* keys denote pairwise distinct integers.
C5_OneEntryPerLocalTile ==
    (SparseReturned /\ arg.src.values_ok) =>
        IF AllKeysParse(arg.src)
        THEN /\ ret.kind = "Map"
             /\ DOMAIN ret.value = {str_parse_u32(k) : k \in arg.src.keys}
             /\ \A n \in DOMAIN ret.value :
                   \E k \in arg.src.keys : str_parse_u32(k) = n /\ ret.value[n] = Decoded(k)
             /\ (\A k1, k2 \in arg.src.keys : k1 # k2 => str_parse_u32(k1) # str_parse_u32(k2))
                   => Cardinality(DOMAIN ret.value) = Cardinality(arg.src.keys)
        ELSE ret.kind = "Err"

C5_Witness ==
    /\ ReturnedFrom("TileTerrain")
    /\ arg.src.values_ok
    /\ arg.src.keys = {<<"1">>, <<"0", "1">>}
    /\ ret.kind = "Map"
    /\ DOMAIN ret.value = {1}
    /\ ret.value[1] = <<"0", "1">>

(***************************************************************************)
(* Paths (std::path::PathBuf as Tileset::load uses it)                     *)
(***************************************************************************)
\* a path: whether it starts at the root, and its components
Path(abs, comps) == [abs |-> abs, comps |-> comps]

\* PathBuf::pop: truncate to the parent; nothing to do when there is no parent
PathPop(p) ==
    IF Len(p.comps) = 0 THEN p
    ELSE Path(p.abs, SubSeq(p.comps, 1, Len(p.comps) - 1))

\* PathBuf::push: an absolute path replaces, a relative path is appended
PathPush(p, q) == IF q.abs THEN q ELSE Path(p.abs, p.comps \o q.comps)

LevelPaths ==
    {Path(FALSE, <<"map.json">>),
     Path(FALSE, <<"levels", "map.json">>),
     Path(TRUE, <<"levels", "map.json">>)}
SourcePaths ==
    {Path(FALSE, <<"tiles.json">>),
     Path(FALSE, <<"sub", "tiles.json">>),
     Path(FALSE, <<"..", "tiles.json">>),
     Path(TRUE, <<"assets", "tiles.json">>)}
ImagePaths ==
    {Path(FALSE, <<"atlas.png">>),
     Path(FALSE, <<"img", "atlas.png">>),
     Path(TRUE, <<"assets", "atlas.png">>)}
NoPath == Path(FALSE, <<>>)

(***************************************************************************)
(* Tileset::load                                                           *)
(***************************************************************************)
\* the numbers a `firstgid` member is drawn from: u64 values on both sides of
\* the end of u32
U64Samples == {0, 1, 5, U32Max, U32Mod, U32Mod + 5}

\* a member of a JSON object: t is "absent" or the JSON shape of its value
SourceFields ==
    [t : {"absent", "number"}, p : {NoPath}] \cup [t : {"string"}, p : SourcePaths]
FirstgidFields ==
    [t : {"absent", "string"}, n : {0}] \cup [t : {"u64"}, n : U64Samples]

\* A tileset entry of the value tree.  rest_ok: whether the members of the
\* Tileset struct other than firstgid are present and well typed; image,
\* tilecount, name: the values of those members.
TilesetValues ==
    [shape : {"object"}, source : SourceFields, firstgid : FirstgidFields,
     rest_ok : BOOLEAN, image : ImagePaths, tilecount : {2}, name : {"inline"}]
    \cup [shape : {"array", "null"}, source : {[t |-> "absent", p |-> NoPath]},
          firstgid : {[t |-> "absent", n |-> 0]}, rest_ok : {FALSE},
          image : {NoPath}, tilecount : {0}, name : {""}]

\* What the file system holds at the path that is opened.  status "ok": a
\* file that parses as an ExternalTileset with the given members; firstgid:
\* a stray `firstgid` member of the file, which ExternalTileset does not name.
FileContents ==
    [status : {"ok"}, image : ImagePaths, tilecount : {3}, name : {"external"},
     firstgid : {[t |-> "absent", n |-> 0], [t |-> "u64", n |-> 1]}]
    \cup [status : {"missing", "malformed"}, image : {NoPath}, tilecount : {0},
          name : {""}, firstgid : {[t |-> "absent", n |-> 0]}]

\* the result of Tileset::load, with the paths it opened
Loaded(ts, rd) == [kind |-> "Ok", value |-> ts, reads |-> rd]
Failed(msg, rd) == [kind |-> "Err", value |-> msg, reads |-> rd]

\* `i as u32`
u64_as_u32(i) == i % U32Mod

\* path: the level's path, popped, the source pushed
ExternalFilePath(data_path, source) == PathPush(PathPop(data_path), source)

\* a mutant of ExternalImagePath: the file name is not popped
ExternalImagePath_no_pop(path, image) == PathPush(path, image)

\* path.pop(); path.push(&ext.image)
ExternalImagePath(path, image) == PathPush(PathPop(path), image)

\* path of the level, popped, the image pushed
InlineImagePath(data_path, image) == PathPush(PathPop(data_path), image)

\* serde_json::from_value::<Tileset>: every member the struct names must be
\* present and well typed; firstgid must be a number that fits u32
Tileset_from_value(data) ==
    /\ data.rest_ok
    /\ data.firstgid.t = "u64"
    /\ data.firstgid.n <= U32Max

Tileset_load(data, data_path, file) ==
    IF data.shape # "object" THEN Failed("Tileset data was not an Object", <<>>)
    ELSE IF data.source.t = "string"
    THEN IF data.firstgid.t # "u64" THEN Failed("Tileset had no firstgid", <<>>)
         ELSE LET firstgid == u64_as_u32(data.firstgid.n)
                  path == ExternalFilePath(data_path, data.source.p)
              IN  IF file.status = "missing" THEN Failed("io error", <<path>>)
                  ELSE IF file.status # "ok" THEN Failed("syntax error", <<path>>)
                  ELSE Loaded([name      |-> file.name,
                               firstgid  |-> firstgid,
                               tilecount |-> file.tilecount,
                               image     |-> ExternalImagePath(path, file.image)],
                              <<path>>)
    ELSE IF ~Tileset_from_value(data) THEN Failed("invalid tileset", <<>>)
         ELSE Loaded([name      |-> data.name,
                      firstgid  |-> data.firstgid.n,
                      tilecount |-> data.tilecount,
                      image     |-> InlineImagePath(data_path, data.image)],
                     <<>>)

TilesetArgs ==
    [op : {"Tileset::load"}, data : TilesetValues, data_path : LevelPaths,
     file : FileContents]

InitTileset ==
    /\ pc = "ready"
    /\ arg \in TilesetArgs
    /\ ret = NoRet
    /\ level = NoRet
    /\ idx = 0
    /\ tilesets = <<>>
    /\ reads = <<>>

TilesetLoad ==
    /\ pc = "ready"
    /\ arg.op = "Tileset::load"
    /\ pc' = "returned"
    /\ LET r == Tileset_load(arg.data, arg.data_path, arg.file) IN
          /\ ret' = [kind |-> r.kind, value |-> r.value]
          /\ reads' = r.reads
    /\ UNCHANGED <<arg, level, idx, tilesets>>

NextTileset == TilesetLoad

SpecTileset == InitTileset /\ [][NextTileset]_vars

IsExternalRef(data) == data.shape = "object" /\ data.source.t = "string"

\* C2: resolving an external reference yields a Tileset whose firstgid is
\* numerically the firstgid written in the reference, for every unsigned
\* value (2^32 and above included), whatever the external file holds.
C2_FirstgidKept ==
    (ReturnedFrom("Tileset::load") /\ IsExternalRef(arg.data)
        /\ arg.data.firstgid.t = "u64" /\ ret.kind = "Ok") =>
        ret.value.firstgid = arg.data.firstgid.n

\* the directory of a path that ends in a file name
DirOf(p) == [abs |-> p.abs, comps |-> [i \in 1..(Len(p.comps) - 1) |-> p.comps[i]]]
\* Path::join
JoinPath(d, r) == IF r.abs THEN r ELSE [abs |-> d.abs, comps |-> d.comps \o r.comps]

\* C3: for an external reference the file read is (directory of the level
\* file) joined with the source, and the image path is (directory of that
\* file) joined with the image the file declares; for an inline tileset no
\* file is read and the image path is (directory of the level file) joined
\* with the declared image.
C3_PathResolution ==
    ReturnedFrom("Tileset::load") =>
        LET ext == JoinPath(DirOf(arg.data_path), arg.data.source.p) IN
        /\ (IsExternalRef(arg.data) /\ arg.data.firstgid.t = "u64") =>
              /\ reads = <<ext>>
              /\ ret.kind = "Ok" => ret.value.image = JoinPath(DirOf(ext), arg.file.image)
        /\ (arg.data.shape = "object" /\ ~IsExternalRef(arg.data)) =>
              /\ reads = <<>>
              /\ ret.kind = "Ok" =>
                    ret.value.image = JoinPath(DirOf(arg.data_path), arg.data.image)

C3_Witness ==
    /\ ReturnedFrom("Tileset::load")
    /\ arg.data_path = Path(FALSE, <<"levels", "map.json">>)
    /\ arg.data.source = [t |-> "string", p |-> Path(FALSE, <<"sub", "tiles.json">>)]
    /\ arg.file.image = Path(FALSE, <<"atlas.png">>)
    /\ reads = <<Path(FALSE, <<"levels", "sub", "tiles.json">>)>>
    /\ ret.kind = "Ok"
    /\ ret.value.image = Path(FALSE, <<"levels", "sub", "atlas.png">>)

(***************************************************************************)
(* Level::load                                                             *)
(***************************************************************************)
\* most layers of a level file
MaxLayers == 1
\* most tileset entries of a level file
MaxTilesets == 2

RenderOrders == {"right-down", "right-up", "left-down", "left-up"}
RenderFields ==
    {[t |-> "string", s |-> "right-down"], [t |-> "string", s |-> "diagonal"],
     [t |-> "number", s |-> ""]}

LayerSamples ==
    {[shape |-> "object", type |-> [t |-> "string", s |-> "tilelayer"],
      common |-> TRUE, data |-> TRUE, objects |-> FALSE],
     [shape |-> "object", type |-> [t |-> "string", s |-> "imagelayer"],
      common |-> TRUE, data |-> FALSE, objects |-> FALSE]}

InlineEntry(ok) ==
    [shape |-> "object", source |-> [t |-> "absent", p |-> NoPath],
     firstgid |-> [t |-> "u64", n |-> 1], rest_ok |-> ok,
     image |-> Path(FALSE, <<"atlas.png">>), tilecount |-> 2, name |-> "inline"]
ExternalEntry(src, fg) ==
    [shape |-> "object", source |-> [t |-> "string", p |-> src], firstgid |-> fg,
     rest_ok |-> FALSE, image |-> Path(FALSE, <<"atlas.png">>), tilecount |-> 2,
     name |-> "inline"]
EntrySamples ==
    {InlineEntry(TRUE), InlineEntry(FALSE),
     ExternalEntry(Path(FALSE, <<"tiles.json">>), [t |-> "u64", n |-> 3]),
     ExternalEntry(Path(FALSE, <<"sub", "tiles.json">>), [t |-> "u64", n |-> 5]),
     ExternalEntry(Path(FALSE, <<"tiles.json">>), [t |-> "absent", n |-> 0])}

FileSamples ==
    {f \in FileContents : f.image \in {NoPath, Path(FALSE, <<"atlas.png">>)}
                          /\ f.firstgid.t = "absent"}

\* What the file system holds at the level's path.  status "ok": a file that
\* parses as JSON, with these members: scalars_ok (height, width, tileheight,
\* tilewidth and orientation present and well typed), renderorder,
\* properties ("absent", or the JSON shape of its value), layers, tilesets.
LevelFiles ==
    [status : {"ok"}, scalars_ok : BOOLEAN, renderorder : RenderFields,
     properties : {"absent", "object", "number"},
     layers : SeqsUpTo(LayerSamples, MaxLayers),
     tilesets : SeqsUpTo(EntrySamples, MaxTilesets)]
    \cup [status : {"missing", "malformed"}, scalars_ok : {FALSE},
          renderorder : {[t |-> "number", s |-> ""]}, properties : {"absent"},
          layers : {<<>>}, tilesets : {<<>>}]

\* the derived decoder of IntermediateLevel: every member is required;
\* renderorder and orientation are any string; each layer goes through
\* Layer's decoder; the tileset entries are kept as raw values
IntermediateLevel_deserialize(file) ==
    IF ~file.scalars_ok THEN Err("level: invalid or missing field")
    ELSE IF file.renderorder.t # "string" THEN Err("level: renderorder")
    ELSE IF file.properties # "object" THEN Err("level: properties")
    ELSE IF \E i \in 1..Len(file.layers) : Layer_deserialize(file.layers[i]).kind = "Err"
    THEN Err("level: layers")
    ELSE Ok("IntermediateLevel",
            [renderorder |-> file.renderorder.s,
             layers      |-> [i \in 1..Len(file.layers) |-> Layer_deserialize(file.layers[i])],
             tilesets    |-> file.tilesets])

\* a mutant of NextEntry: the entries are taken from the back
NextEntry_reversed(entries, n) == entries[Len(entries) - n]

\* the entry into_iter() yields after n entries have been taken
NextEntry(entries, n) == entries[n + 1]

LevelLoadPaths == {Path(FALSE, <<"map.json">>), Path(FALSE, <<"levels", "map.json">>)}
LevelArgs == [op : {"Level::load"}, path : LevelLoadPaths, file : LevelFiles]

\* pc "ready": Level::load is called; "resolving": the level file is parsed
\* and the tileset entries are being resolved; level: the IntermediateLevel;
\* idx: the entries handed to Tileset::load so far; tilesets: the Tilesets
\* collected so far; reads: the paths opened so far
InitLevel ==
    /\ pc = "ready"
    /\ arg \in LevelArgs
    /\ ret = NoRet
    /\ level = NoRet
    /\ idx = 0
    /\ tilesets = <<>>
    /\ reads = <<>>

\* File::open and serde_json::from_reader
LevelOpen ==
    /\ pc = "ready"
    /\ arg.op = "Level::load"
    /\ reads' = <<arg.path>>
    /\ IF arg.file.status = "missing"
       THEN pc' = "returned" /\ ret' = Err("level: io error") /\ level' = level
       ELSE IF arg.file.status # "ok"
       THEN pc' = "returned" /\ ret' = Err("level: syntax error") /\ level' = level
       ELSE LET parsed == IntermediateLevel_deserialize(arg.file) IN
            IF parsed.kind = "Err"
            THEN pc' = "returned" /\ ret' = parsed /\ level' = level
            ELSE pc' = "resolving" /\ ret' = ret /\ level' = parsed.value
    /\ UNCHANGED <<arg, idx, tilesets>>

\* one step of the map(..).collect() into Result<Vec<Tileset>, _>
ResolveNext ==
    /\ pc = "resolving"
    /\ idx < Len(level.tilesets)
    /\ \E file \in FileSamples :
          LET r == Tileset_load(NextEntry(level.tilesets, idx), arg.path, file) IN
          /\ idx' = idx + 1
          /\ reads' = reads \o r.reads
          /\ IF r.kind = "Err"
             THEN /\ pc' = "returned"
                  /\ ret' = Err(r.value)
                  /\ tilesets' = tilesets
             ELSE /\ pc' = pc
                  /\ ret' = ret
                  /\ tilesets' = Append(tilesets, r.value)
    /\ UNCHANGED <<arg, level>>

\* Ok(Level { .. })
LevelAssemble ==
    /\ pc = "resolving"
    /\ idx = Len(level.tilesets)
    /\ pc' = "returned"
    /\ ret' = Ok("Level", [renderorder |-> level.renderorder,
                           layers      |-> level.layers,
                           tilesets    |-> tilesets])
    /\ UNCHANGED <<arg, level, idx, tilesets, reads>>

NextLevel == LevelOpen \/ ResolveNext \/ LevelAssemble

SpecLevel == InitLevel /\ [][NextLevel]_vars

\* what resolving an entry can give, over the files the path may hold
Resolutions(entry, path) == {Tileset_load(entry, path, f) : f \in FileSamples}
\* the paths resolving an entry opens
ReadsOf(entry, path) == (CHOOSE r \in Resolutions(entry, path) : TRUE).reads

RECURSIVE ReadsOfFirst(_, _, _)
ReadsOfFirst(entries, n, path) ==
    IF n = 0 THEN <<>>
    ELSE ReadsOfFirst(entries, n - 1, path) \o ReadsOf(entries[n], path)

\* C6: the entries are resolved one after the other in input order, all or
\* nothing: either every entry resolves and tilesets[i] is the resolution of
\* entry i for every i, or the load returns the failure of the first entry
\* that fails, with no Level, and no later entry is resolved or read.
C6_SequentialAllOrNothing ==
    (arg.op = "Level::load" /\ pc # "ready") =>
        LET entries == arg.file.tilesets IN
        /\ idx <= Len(entries)
        /\ \A j \in 1..Len(tilesets) :
              \E r \in Resolutions(entries[j], arg.path) :
                  r.kind = "Ok" /\ r.value = tilesets[j]
        /\ reads = <<arg.path>> \o ReadsOfFirst(entries, idx, arg.path)
        /\ (pc = "returned" /\ ret.kind = "Level") =>
              /\ ret.value.tilesets = tilesets
              /\ Len(tilesets) = Len(entries)
              /\ idx = Len(entries)
        /\ (pc = "returned" /\ ret.kind = "Err" /\ idx > 0) =>
              /\ Len(tilesets) = idx - 1
              /\ \E r \in Resolutions(entries[idx], arg.path) :
                    r.kind = "Err" /\ r.value = ret.value
        /\ (pc = "returned" /\ ret.kind = "Err" /\ idx = 0) => tilesets = <<>>
        /\ pc = "returned" => ret.kind \in {"Level", "Err"}

C6_Witness ==
    /\ pc = "returned"
    /\ arg.op = "Level::load"
    /\ Len(arg.file.tilesets) = 2
    /\ IsExternalRef(arg.file.tilesets[1]) /\ IsExternalRef(arg.file.tilesets[2])
    /\ arg.file.tilesets[1] # arg.file.tilesets[2]
    /\ ret.kind = "Err"
    /\ idx = 1
    /\ Len(reads) = 2

C6_WitnessOk ==
    /\ pc = "returned"
    /\ arg.op = "Level::load"
    /\ Len(arg.file.tilesets) = 2
    /\ arg.file.tilesets[1] # arg.file.tilesets[2]
    /\ ret.kind = "Level"
    /\ Len(ret.value.tilesets) = 2

\* C7: a level whose renderorder is a string other than the four recognised
\* values fails to load; no Level has a renderorder outside that set.
C7_RenderOrderChecked ==
    (arg.op = "Level::load" /\ pc = "returned") =>
        /\ (arg.file.status = "ok" /\ arg.file.renderorder.t = "string"
               /\ arg.file.renderorder.s \notin RenderOrders) => ret.kind = "Err"
        /\ ret.kind = "Level" => ret.value.renderorder \in RenderOrders

\* a level file with its scalar members, empty layers and tilesets, and no
\* properties member
IsMinimalLevel(file) ==
    /\ file.status = "ok"
    /\ file.scalars_ok
    /\ file.renderorder.t = "string" /\ file.renderorder.s \in RenderOrders
    /\ file.layers = <<>>
    /\ file.tilesets = <<>>
    /\ file.properties = "absent"

\* C8: a minimal valid level file, without the optional properties member,
\* loads to a Level with empty layers and tilesets.
C8_MinimalLevelLoads ==
    (arg.op = "Level::load" /\ pc = "returned" /\ IsMinimalLevel(arg.file)) =>
        /\ ret.kind = "Level"
        /\ ret.value.layers = <<>>
        /\ ret.value.tilesets = <<>>

====
